---- MODULE Spec2Model ----
(***************************************************************************)
(* Model of the Rustastic network initializer                              *)
(* (src/src/network_initializer.rs): run() turns the parsed configuration  *)
(* into channels, builds the drones, clients and servers, hands the        *)
(* directory of producers to the simulation controller, spawns one thread  *)
(* per actor, feeds the GUI and joins the threads.                         *)
(*                                                                         *)
(* A channel is named by the place that created it: <<kind, role, k>> is   *)
(* the channel of kind "pkt"/"cmd"/"evt"/"gui" created for the k-th        *)
(* declared node of that role (k = 0 for the channels created once).       *)
(* A HashMap is a function whose DOMAIN is its key set.                    *)
(***************************************************************************)
EXTENDS Naturals, Sequences, FiniteSets, TLC

VARIABLES
    config,                 \* the parsed Config: drone, client, server lists
    pc,                     \* position of the thread executing run()
    idx,                    \* 1-based index of the loop at pc
    channels,               \* channels created so far by unbounded()
    dropped,                \* channels whose consumer end was dropped unread
    packet_send, packet_recv,
    command_send, command_recv,
    comm_server_send, comm_server_recv,
    cclient_send, cclient_recv,
    mclient_send, mclient_recv,
    drones, drones_hashmap,
    chat_clients, media_clients, communication_servers,
    simulation_controller,  \* the maps moved into SimulationController::new
    spawned,                \* handles returned by thread::spawn
    joined,                 \* handles on which join() has returned
    gui_event_chan,         \* messages sent on the GUI event channel, in order
    panic_msg               \* which panic ended run(), "" while none

vars == <<config, pc, idx, channels, dropped, packet_send, packet_recv,
          command_send, command_recv, comm_server_send, comm_server_recv,
          cclient_send, cclient_recv, mclient_send, mclient_recv,
          drones, drones_hashmap, chat_clients, media_clients,
          communication_servers, simulation_controller, spawned, joined,
          gui_event_chan, panic_msg>>

----------------------------------------------------------------------------
(* Bounds and program constants *)

MaxDrones == 2

MaxClients == 2

MaxServers == 1

MaxGuiEvents == 1

\* the length of the drone_factories vector
NumFactories == 10

\* the minimum number of drones the documentation of run() states
MinDrones == 10

----------------------------------------------------------------------------
(* Configurations *)

Range(s) == {s[i] : i \in 1..Len(s)}

SeqsUpTo(S, n) == UNION {[1..k -> S] : k \in 0..n}

\* 99 is an id no configuration declares
DroneRecs ==
    { [id |-> 1, connected_node_ids |-> <<2>>],
      [id |-> 1, connected_node_ids |-> <<2, 99>>],
      [id |-> 2, connected_node_ids |-> <<1>>] }

ClientRecs ==
    { [id |-> 3, connected_drone_ids |-> <<1>>],
      [id |-> 5, connected_drone_ids |-> <<1, 2>>],
      [id |-> 2, connected_drone_ids |-> <<1>>],
      [id |-> 3, connected_drone_ids |-> <<99>>] }

ServerRecs ==
    { [id |-> 4, connected_drone_ids |-> <<1>>],
      [id |-> 4, connected_drone_ids |-> <<99>>] }

SmallConfigs ==
    [ drone  : SeqsUpTo(DroneRecs, MaxDrones),
      client : SeqsUpTo(ClientRecs, MaxClients),
      server : SeqsUpTo(ServerRecs, MaxServers) ]

\* n drones 11..10+n in a directed ring, one client and one server on the
\* first drone
RingConfig(n) ==
    [ drone  |-> [k \in 1..n |->
                    [id |-> 10 + k,
                     connected_node_ids |-> <<10 + (k % n) + 1>>]],
      client |-> IF n = 0 THEN <<>>
                 ELSE <<[id |-> 30, connected_drone_ids |-> <<11>>]>>,
      server |-> IF n = 0 THEN <<>>
                 ELSE <<[id |-> 40, connected_drone_ids |-> <<11>>]>> ]

RingConfigs == {RingConfig(n) : n \in 0..(NumFactories + 1)}

Configs == SmallConfigs \cup RingConfigs

----------------------------------------------------------------------------
(* HashMap *)

EmptyMap == << >>

Put(m, k, v) == [x \in (DOMAIN m) \cup {k} |-> IF x = k THEN v ELSE m[x]]

Has(m, k) == k \in DOMAIN m

----------------------------------------------------------------------------
(* The order of the steps of run() *)

\* the order of a run() that starts each drone's thread as soon as the drones
\* are built, before the clients and the servers are
PhaseOrderSpawnEarly ==
    << "start",
       "drone_channels", "server_channels", "client_channels",
       "build_drones", "spawn_drones", "build_clients", "build_servers",
       "new_controller", "spawn_controller",
       "spawn_cclients", "spawn_mclients", "spawn_servers",
       "send_topology", "run_gui",
       "join_drones", "join_cclients", "join_mclients", "join_servers",
       "join_controller", "done" >>

\* the order of a run() that returns without joining the controller's thread
PhaseOrderControllerDetached ==
    << "start",
       "drone_channels", "server_channels", "client_channels",
       "build_drones", "build_clients", "build_servers",
       "new_controller", "spawn_controller",
       "spawn_drones", "spawn_cclients", "spawn_mclients", "spawn_servers",
       "send_topology", "run_gui",
       "join_drones", "join_cclients", "join_mclients", "join_servers",
       "done" >>

PhaseOrder ==
    << "start",
       "drone_channels", "server_channels", "client_channels",
       "build_drones", "build_clients", "build_servers",
       "new_controller", "spawn_controller",
       "spawn_drones", "spawn_cclients", "spawn_mclients", "spawn_servers",
       "send_topology", "run_gui",
       "join_drones", "join_cclients", "join_mclients", "join_servers",
       "join_controller", "done" >>

PhaseIndex(p) == CHOOSE i \in 1..Len(PhaseOrder) : PhaseOrder[i] = p

NextPc(p) == PhaseOrder[PhaseIndex(p) + 1]

\* the steps that are loops, with the length of the list each iterates
LoopPhases ==
    { "drone_channels", "server_channels", "client_channels",
      "build_drones", "build_clients", "build_servers",
      "spawn_drones", "spawn_cclients", "spawn_mclients", "spawn_servers",
      "join_drones", "join_cclients", "join_mclients", "join_servers" }

LoopLen(p) ==
    CASE p \in {"drone_channels", "build_drones"}   -> Len(config.drone)
      [] p \in {"server_channels", "build_servers"} -> Len(config.server)
      [] p \in {"client_channels", "build_clients"} -> Len(config.client)
      [] p \in {"spawn_drones", "join_drones"}      -> Len(drones)
      [] p \in {"spawn_cclients", "join_cclients"}  -> Len(chat_clients)
      [] p \in {"spawn_mclients", "join_mclients"}  -> Len(media_clients)
      [] p \in {"spawn_servers", "join_servers"}    -> Len(communication_servers)

\* a half that rounds up instead of down
halfRoundedUp == (Len(config.client) + 1) \div 2

\* let half = config.client.len() / 2
half == Len(config.client) \div 2

\* the channels created once, outside the loops
DroneEventChan == <<"evt", "drone", 0>>

ServerEventChan == <<"evt", "server", 0>>

CClientEventChan == <<"evt", "cclient", 0>>

MClientEventChan == <<"evt", "mclient", 0>>

GuiCommandChan == <<"gui", "command", 0>>

GuiEventChan == <<"gui", "event", 0>>

\* the channels created between two loops, before the step p begins
CreatedBefore(p) ==
    CASE p = "drone_channels"  -> {DroneEventChan}
      [] p = "server_channels" -> {ServerEventChan}
      [] p = "client_channels" -> {CClientEventChan, MClientEventChan}
      [] OTHER                 -> {}

NoController ==
    [ drones_hashmap   |-> EmptyMap,
      cclient_send     |-> EmptyMap,
      mclient_send     |-> EmptyMap,
      comm_server_send |-> EmptyMap,
      event_recv       |-> {} ]

----------------------------------------------------------------------------
(* Initial state: run() is entered, the configuration file is on disk *)

Init ==
    /\ config \in Configs
    /\ pc = "start"
    /\ idx = 1
    /\ channels = {}
    /\ dropped = {}
    /\ packet_send = EmptyMap /\ packet_recv = EmptyMap
    /\ command_send = EmptyMap /\ command_recv = EmptyMap
    /\ comm_server_send = EmptyMap /\ comm_server_recv = EmptyMap
    /\ cclient_send = EmptyMap /\ cclient_recv = EmptyMap
    /\ mclient_send = EmptyMap /\ mclient_recv = EmptyMap
    /\ drones = <<>> /\ drones_hashmap = EmptyMap
    /\ chat_clients = <<>> /\ media_clients = <<>>
    /\ communication_servers = <<>>
    /\ simulation_controller = NoController
    /\ spawned = {} /\ joined = {}
    /\ gui_event_chan = <<>>
    /\ panic_msg = ""

\* a step that ends in a panic: run() unwinds and the process exits
Panic(msg) ==
    /\ pc' = "panicked"
    /\ panic_msg' = msg

\* the end of a loop: the next step of run() begins
LoopExit ==
    /\ pc \in LoopPhases
    /\ idx > LoopLen(pc)
    /\ pc' = NextPc(pc)
    /\ idx' = 1
    /\ channels' = channels \cup CreatedBefore(NextPc(pc))
    /\ UNCHANGED <<config, dropped, packet_send, packet_recv,
                   command_send, command_recv, comm_server_send,
                   comm_server_recv, cclient_send, cclient_recv, mclient_send,
                   mclient_recv, drones, drones_hashmap, chat_clients,
                   media_clients, communication_servers,
                   simulation_controller, spawned, joined, gui_event_chan,
                   panic_msg>>

\* open() has returned the configuration; the drone event channel and the
\* empty packet and command maps are created
Start ==
    /\ pc = "start"
    /\ channels' = channels \cup CreatedBefore(NextPc(pc))
    /\ pc' = NextPc(pc)
    /\ idx' = 1
    /\ UNCHANGED <<config, dropped, packet_send, packet_recv,
                   command_send, command_recv, comm_server_send,
                   comm_server_recv, cclient_send, cclient_recv, mclient_send,
                   mclient_recv, drones, drones_hashmap, chat_clients,
                   media_clients, communication_servers,
                   simulation_controller, spawned, joined, gui_event_chan,
                   panic_msg>>

\* one iteration of "for drone in &config.drone": a packet channel and a
\* command channel, both ends stored under the drone's id
CreateDroneChannels ==
    /\ pc = "drone_channels"
    /\ idx <= Len(config.drone)
    /\ LET id  == config.drone[idx].id
           pkt == <<"pkt", "drone", idx>>
           cmd == <<"cmd", "drone", idx>>
       IN  /\ channels' = channels \cup {pkt, cmd}
           /\ packet_send' = Put(packet_send, id, pkt)
           /\ packet_recv' = Put(packet_recv, id, pkt)
           /\ command_send' = Put(command_send, id, cmd)
           /\ command_recv' = Put(command_recv, id, cmd)
    /\ idx' = idx + 1
    /\ UNCHANGED <<config, pc, dropped, comm_server_send,
                   comm_server_recv, cclient_send, cclient_recv, mclient_send,
                   mclient_recv, drones, drones_hashmap, chat_clients,
                   media_clients, communication_servers,
                   simulation_controller, spawned, joined, gui_event_chan,
                   panic_msg>>

\* one iteration of "for server in &config.server": the server's command
\* producer goes to comm_server_send, a clone of the server event consumer
\* to comm_server_recv, and the command consumer goes out of scope
CreateServerChannels ==
    /\ pc = "server_channels"
    /\ idx <= Len(config.server)
    /\ LET id  == config.server[idx].id
           pkt == <<"pkt", "server", idx>>
           cmd == <<"cmd", "server", idx>>
       IN  /\ channels' = channels \cup {pkt, cmd}
           /\ packet_send' = Put(packet_send, id, pkt)
           /\ packet_recv' = Put(packet_recv, id, pkt)
           /\ comm_server_recv' = Put(comm_server_recv, id, ServerEventChan)
           /\ comm_server_send' = Put(comm_server_send, id, <<cmd, pkt>>)
           /\ dropped' = dropped \cup {cmd}
    /\ idx' = idx + 1
    /\ UNCHANGED <<config, pc, command_send, command_recv,
                   cclient_send, cclient_recv, mclient_send,
                   mclient_recv, drones, drones_hashmap, chat_clients,
                   media_clients, communication_servers,
                   simulation_controller, spawned, joined, gui_event_chan,
                   panic_msg>>

\* one iteration of "for client in &config.client": the first half of the
\* clients get chat-client command channels, the others media-client ones
CreateClientChannels ==
    /\ pc = "client_channels"
    /\ idx <= Len(config.client)
    /\ LET id    == config.client[idx].id
           count == idx - 1
           pkt   == <<"pkt", "client", idx>>
           cmd   == <<"cmd", "client", idx>>
       IN  /\ channels' = channels \cup {pkt, cmd}
           /\ packet_send' = Put(packet_send, id, pkt)
           /\ packet_recv' = Put(packet_recv, id, pkt)
           /\ IF count < half
                THEN /\ cclient_recv' = Put(cclient_recv, id, cmd)
                     /\ cclient_send' = Put(cclient_send, id, <<cmd, pkt>>)
                     /\ UNCHANGED <<mclient_recv, mclient_send>>
                ELSE /\ mclient_recv' = Put(mclient_recv, id, cmd)
                     /\ mclient_send' = Put(mclient_send, id, <<cmd, pkt>>)
                     /\ UNCHANGED <<cclient_recv, cclient_send>>
    /\ idx' = idx + 1
    /\ UNCHANGED <<config, pc, dropped, command_send, command_recv,
                   comm_server_send, comm_server_recv,
                   drones, drones_hashmap, chat_clients,
                   media_clients, communication_servers,
                   simulation_controller, spawned, joined, gui_event_chan,
                   panic_msg>>

----------------------------------------------------------------------------
(* Building the actors *)

RECURSIVE FillNeighbors(_, _, _)
\* the drone factory's loop over connected_node_ids: a neighbor that is a key
\* of packet_send_hashmap is inserted with a clone of its sender, any other
\* neighbor passes the filter with nothing inserted
FillNeighbors(neighbors, packet_send_hashmap, acc) ==
    IF neighbors = <<>>
    THEN acc
    ELSE LET neighbor == Head(neighbors)
         IN  FillNeighbors(Tail(neighbors), packet_send_hashmap,
                 IF Has(packet_send_hashmap, neighbor)
                 THEN Put(acc, neighbor, packet_send_hashmap[neighbor])
                 ELSE acc)

\* the closure drone_factory::<T>() returns
DroneFactory(drone, event_send, command_recv_hashmap, packet_send_hashmap, packet_recv_hashmap) ==
    IF Has(packet_recv_hashmap, drone.id)
    THEN IF Has(command_recv_hashmap, drone.id)
         THEN [ panic |-> "",
                actor |-> [ id           |-> drone.id,
                            event_send   |-> event_send,
                            command_recv |-> command_recv_hashmap[drone.id],
                            packet_recv  |-> packet_recv_hashmap[drone.id],
                            packet_send  |->
                                FillNeighbors(drone.connected_node_ids,
                                              packet_send_hashmap, EmptyMap) ] ]
         ELSE [ panic |-> "Command receiver not found", actor |-> <<>> ]
    ELSE [ panic |-> "Packet receiver not found", actor |-> <<>> ]

RECURSIVE UnwrapNeighbors(_, _, _)
\* the loop of a client or a server over connected_drone_ids:
\* packet_send.get(neighbor).unwrap() panics on an id that is no key
UnwrapNeighbors(neighbors, packet_send_hashmap, acc) ==
    IF neighbors = <<>>
    THEN [ panic |-> "", map |-> acc ]
    ELSE LET neighbor == Head(neighbors)
         IN  IF Has(packet_send_hashmap, neighbor)
             THEN UnwrapNeighbors(Tail(neighbors), packet_send_hashmap,
                      Put(acc, neighbor, packet_send_hashmap[neighbor]))
             ELSE [ panic |-> "unwrap on None: neighbor sender", map |-> acc ]

\* one iteration of "for (n, drone) in config.drone.iter().enumerate()"
BuildDrone ==
    /\ pc = "build_drones"
    /\ idx <= Len(config.drone)
    /\ LET drone == config.drone[idx]
           n     == idx - 1
           built == DroneFactory(drone, DroneEventChan, command_recv,
                                 packet_send, packet_recv)
           msg   == IF ~(n < NumFactories) THEN "No factory defined"
                    ELSE IF built.panic # "" THEN built.panic
                    ELSE IF ~Has(packet_send, drone.id)
                         THEN "Packet sender not found"
                    ELSE IF ~Has(command_send, drone.id)
                         THEN "Command sender not found"
                    ELSE ""
       IN  IF msg # ""
           THEN /\ Panic(msg)
                /\ UNCHANGED <<idx, drones, drones_hashmap>>
           ELSE /\ drones' = Append(drones, built.actor)
                /\ drones_hashmap' =
                       Put(drones_hashmap, drone.id,
                           <<command_send[drone.id], packet_send[drone.id]>>)
                /\ idx' = idx + 1
                /\ UNCHANGED <<pc, panic_msg>>
    /\ UNCHANGED <<config, channels, dropped, packet_send, packet_recv,
                   command_send, command_recv, comm_server_send,
                   comm_server_recv, cclient_send, cclient_recv, mclient_send,
                   mclient_recv, chat_clients,
                   media_clients, communication_servers,
                   simulation_controller, spawned, joined, gui_event_chan>>

\* one iteration of "for client in &config.client" that builds the clients
BuildClient ==
    /\ pc = "build_clients"
    /\ idx <= Len(config.client)
    /\ LET client    == config.client[idx]
           count     == idx - 1
           cpkt_send == UnwrapNeighbors(client.connected_drone_ids,
                                        packet_send, EmptyMap)
           cmd_map   == IF count < half THEN cclient_recv ELSE mclient_recv
           msg       == IF cpkt_send.panic # "" THEN cpkt_send.panic
                        ELSE IF ~Has(cmd_map, client.id)
                             THEN "unwrap on None: client command receiver"
                        ELSE IF ~Has(packet_recv, client.id)
                             THEN "unwrap on None: client packet receiver"
                        ELSE ""
           actor     == [ id           |-> client.id,
                          event_send   |-> IF count < half
                                           THEN CClientEventChan
                                           ELSE MClientEventChan,
                          command_recv |-> cmd_map[client.id],
                          packet_recv  |-> packet_recv[client.id],
                          packet_send  |-> cpkt_send.map ]
       IN  IF msg # ""
           THEN /\ Panic(msg)
                /\ UNCHANGED <<idx, chat_clients, media_clients>>
           ELSE /\ IF count < half
                     THEN /\ chat_clients' = Append(chat_clients, actor)
                          /\ UNCHANGED media_clients
                     ELSE /\ media_clients' = Append(media_clients, actor)
                          /\ UNCHANGED chat_clients
                /\ idx' = idx + 1
                /\ UNCHANGED <<pc, panic_msg>>
    /\ UNCHANGED <<config, channels, dropped, packet_send, packet_recv,
                   command_send, command_recv, comm_server_send,
                   comm_server_recv, cclient_send, cclient_recv, mclient_send,
                   mclient_recv, drones, drones_hashmap,
                   communication_servers,
                   simulation_controller, spawned, joined, gui_event_chan>>

\* one iteration of "for server in &config.server" that builds the servers;
\* the last argument of CommunicationServer::new is the entry of
\* comm_server_recv, a consumer of the server event channel
BuildServer ==
    /\ pc = "build_servers"
    /\ idx <= Len(config.server)
    /\ LET server    == config.server[idx]
           spkt_send == UnwrapNeighbors(server.connected_drone_ids,
                                        packet_send, EmptyMap)
           msg       == IF spkt_send.panic # "" THEN spkt_send.panic
                        ELSE IF ~Has(packet_recv, server.id)
                             THEN "unwrap on None: server packet receiver"
                        ELSE IF ~Has(comm_server_recv, server.id)
                             THEN "unwrap on None: server receiver"
                        ELSE ""
           actor     == [ id           |-> server.id,
                          event_send   |-> ServerEventChan,
                          command_recv |-> comm_server_recv[server.id],
                          packet_recv  |-> packet_recv[server.id],
                          packet_send  |-> spkt_send.map ]
       IN  IF msg # ""
           THEN /\ Panic(msg)
                /\ UNCHANGED <<idx, communication_servers>>
           ELSE /\ communication_servers' =
                       Append(communication_servers, actor)
                /\ idx' = idx + 1
                /\ UNCHANGED <<pc, panic_msg>>
    /\ UNCHANGED <<config, channels, dropped, packet_send, packet_recv,
                   command_send, command_recv, comm_server_send,
                   comm_server_recv, cclient_send, cclient_recv, mclient_send,
                   mclient_recv, drones, drones_hashmap, chat_clients,
                   media_clients,
                   simulation_controller, spawned, joined, gui_event_chan>>

----------------------------------------------------------------------------
(* The controller, the threads, the GUI and the joins *)

ControllerHandle == <<"controller", 0>>

\* the handles run() collects when every spawn has been made
AllHandles ==
    {ControllerHandle}
        \cup {<<"drone", k>> : k \in 1..Len(drones)}
        \cup {<<"cclient", k>> : k \in 1..Len(chat_clients)}
        \cup {<<"mclient", k>> : k \in 1..Len(media_clients)}
        \cup {<<"server", k>> : k \in 1..Len(communication_servers)}

\* the GUI channels are created and SimulationController::new takes the
\* four directories and the event consumers by value
NewController ==
    /\ pc = "new_controller"
    /\ channels' = channels \cup {GuiCommandChan, GuiEventChan}
    /\ simulation_controller' =
           [ drones_hashmap   |-> drones_hashmap,
             cclient_send     |-> cclient_send,
             mclient_send     |-> mclient_send,
             comm_server_send |-> comm_server_send,
             event_recv       |-> {DroneEventChan, CClientEventChan,
                                   MClientEventChan, ServerEventChan} ]
    /\ drones_hashmap' = EmptyMap
    /\ cclient_send' = EmptyMap
    /\ mclient_send' = EmptyMap
    /\ comm_server_send' = EmptyMap
    /\ pc' = NextPc(pc)
    /\ idx' = 1
    /\ UNCHANGED <<config, dropped, packet_send, packet_recv,
                   command_send, command_recv, comm_server_recv,
                   cclient_recv, mclient_recv, drones, chat_clients,
                   media_clients, communication_servers,
                   spawned, joined, gui_event_chan, panic_msg>>

\* what the steps after the build leave alone
BuiltUnchanged ==
    UNCHANGED <<config, channels, dropped, packet_send, packet_recv,
                command_send, command_recv, comm_server_send,
                comm_server_recv, cclient_send, cclient_recv, mclient_send,
                mclient_recv, drones, drones_hashmap, chat_clients,
                media_clients, communication_servers, simulation_controller>>

\* thread::spawn(move || simulation_controller.run())
SpawnController ==
    /\ pc = "spawn_controller"
    /\ spawned' = spawned \cup {ControllerHandle}
    /\ pc' = NextPc(pc)
    /\ idx' = 1
    /\ BuiltUnchanged
    /\ UNCHANGED <<joined, gui_event_chan, panic_msg>>

\* one iteration of a loop that spawns the thread of an actor and pushes
\* its handle
SpawnActor(phase, role) ==
    /\ pc = phase
    /\ idx <= LoopLen(phase)
    /\ spawned' = spawned \cup {<<role, idx>>}
    /\ idx' = idx + 1
    /\ BuiltUnchanged
    /\ UNCHANGED <<pc, joined, gui_event_chan, panic_msg>>

\* the running controller sends an event of its own to the GUI
ControllerGuiEvent ==
    /\ pc \notin {"done", "panicked"}
    /\ ControllerHandle \in spawned \ joined
    /\ Cardinality({i \in 1..Len(gui_event_chan) :
                       gui_event_chan[i] = "ControllerEvent"}) < MaxGuiEvents
    /\ gui_event_chan' = Append(gui_event_chan, "ControllerEvent")
    /\ BuiltUnchanged
    /\ UNCHANGED <<pc, idx, spawned, joined, panic_msg>>

\* SimCtrlGUI::new and gui_send.send(GUIEvents::Topology(..)).unwrap()
SendTopology ==
    /\ pc = "send_topology"
    /\ gui_event_chan' = Append(gui_event_chan, "Topology")
    /\ pc' = NextPc(pc)
    /\ idx' = 1
    /\ BuiltUnchanged
    /\ UNCHANGED <<spawned, joined, panic_msg>>

\* eframe::run_native returns when the window is closed; its result is
\* discarded
RunGui ==
    /\ pc = "run_gui"
    /\ pc' = NextPc(pc)
    /\ idx' = 1
    /\ BuiltUnchanged
    /\ UNCHANGED <<spawned, joined, gui_event_chan, panic_msg>>

\* handle.join().unwrap(): join returns when the thread has ended, Ok if
\* its run() returned and Err if it panicked; unwrap panics on Err
JoinResult(handle, ok, next_pc, next_idx) ==
    /\ handle \in spawned \ joined
    /\ joined' = joined \cup {handle}
    /\ IF ok
       THEN /\ pc' = next_pc
            /\ idx' = next_idx
            /\ UNCHANGED panic_msg
       ELSE /\ Panic("unwrap on Err: joined thread panicked")
            /\ UNCHANGED idx
    /\ BuiltUnchanged
    /\ UNCHANGED <<spawned, gui_event_chan>>

\* one iteration of a loop that joins the handles of one kind of actor
JoinActor(phase, role) ==
    /\ pc = phase
    /\ idx <= LoopLen(phase)
    /\ \E ok \in BOOLEAN : JoinResult(<<role, idx>>, ok, pc, idx + 1)

\* controller_handle.join().unwrap()
JoinController ==
    /\ pc = "join_controller"
    /\ \E ok \in BOOLEAN : JoinResult(ControllerHandle, ok, NextPc(pc), 1)

Next ==
    \/ Start
    \/ LoopExit
    \/ CreateDroneChannels
    \/ CreateServerChannels
    \/ CreateClientChannels
    \/ BuildDrone
    \/ BuildClient
    \/ BuildServer
    \/ NewController
    \/ SpawnController
    \/ SpawnActor("spawn_drones", "drone")
    \/ SpawnActor("spawn_cclients", "cclient")
    \/ SpawnActor("spawn_mclients", "mclient")
    \/ SpawnActor("spawn_servers", "server")
    \/ ControllerGuiEvent
    \/ SendTopology
    \/ RunGui
    \/ JoinActor("join_drones", "drone")
    \/ JoinActor("join_cclients", "cclient")
    \/ JoinActor("join_mclients", "mclient")
    \/ JoinActor("join_servers", "server")
    \/ JoinController

Spec == Init /\ [][Next]_vars

----------------------------------------------------------------------------
(* Vocabulary of the properties *)

\* the declared nodes: <<role, k>> is the k-th entry of config.role
Nodes ==
    ({"drone"} \X (1..Len(config.drone)))
        \cup ({"client"} \X (1..Len(config.client)))
        \cup ({"server"} \X (1..Len(config.server)))

NodeRec(n) ==
    CASE n[1] = "drone"  -> config.drone[n[2]]
      [] n[1] = "client" -> config.client[n[2]]
      [] n[1] = "server" -> config.server[n[2]]

NodeIdOf(n) == NodeRec(n).id

Neighbors(n) ==
    IF n[1] = "drone" THEN NodeRec(n).connected_node_ids
    ELSE NodeRec(n).connected_drone_ids

DeclaredIds == {NodeIdOf(n) : n \in Nodes}

HasUndeclaredNeighbor ==
    \E n \in Nodes : \E j \in Range(Neighbors(n)) : j \notin DeclaredIds

HasDuplicateId ==
    \E n, m \in Nodes : n # m /\ NodeIdOf(n) = NodeIdOf(m)

\* the inbound message channel created for node n
OwnInbound(n) == <<"pkt", n[1], n[2]>>

\* the place of node n's actor: the first half of the clients are the chat
\* clients, in order, the others the media clients
SlotOf(n) ==
    CASE n[1] = "drone"  -> <<"drone", n[2]>>
      [] n[1] = "server" -> <<"server", n[2]>>
      [] n[1] = "client" -> IF n[2] <= half THEN <<"cclient", n[2]>>
                            ELSE <<"mclient", n[2] - half>>

\* the actors built so far
Slots == AllHandles \ {ControllerHandle}

ActorAt(slot) ==
    CASE slot[1] = "drone"   -> drones[slot[2]]
      [] slot[1] = "cclient" -> chat_clients[slot[2]]
      [] slot[1] = "mclient" -> media_clients[slot[2]]
      [] slot[1] = "server"  -> communication_servers[slot[2]]

\* the handles of a boot that spawns every unit of the configuration
ConfigHandles == {ControllerHandle} \cup {SlotOf(n) : n \in Nodes}

\* every actor is built and the controller owns the directory
BuildSucceeded ==
    /\ pc # "panicked"
    /\ PhaseIndex(pc) > PhaseIndex("new_controller")

\* the controller's directory for the role of node n
DirectoryOf(n) ==
    CASE n[1] = "drone"  -> simulation_controller.drones_hashmap
      [] n[1] = "server" -> simulation_controller.comm_server_send
      [] n[1] = "client" -> IF n[2] <= half
                            THEN simulation_controller.cclient_send
                            ELSE simulation_controller.mclient_send

RECURSIVE SumOver(_, _)
SumOver(S, f) ==
    IF S = {} THEN 0
    ELSE LET x == CHOOSE y \in S : TRUE
         IN  f[x] + SumOver(S \ {x}, f)

JoinPanic == "unwrap on Err: joined thread panicked"

----------------------------------------------------------------------------
(* Properties *)

\* C1: a configuration in which some node lists a neighbor id that no node
\* declares never gets a thread spawned: run() fails during boot
C1_UndeclaredNeighborFailsBoot ==
    HasUndeclaredNeighbor => spawned = {}

\* C2: once the actors are built, the inbound message channel of every node
\* has one consumer end, held by that node's actor: none is left in the
\* initializer's packet_recv map and no other actor holds one
C2_SingleConsumer ==
    BuildSucceeded =>
        \A n \in Nodes :
            /\ \A id \in DOMAIN packet_recv : packet_recv[id] # OwnInbound(n)
            /\ {slot \in Slots : ActorAt(slot).packet_recv = OwnInbound(n)}
                   = {SlotOf(n)}

\* C3: when run() has ended after the spawns, every handle has had its join
\* attempted, whichever joins failed
C3_AllJoinsAttempted ==
    (pc \in {"done", "panicked"} /\ spawned # {}) => joined = spawned

\* C4: with fewer than the minimum number of drones no channel is ever
\* created and run() does not get past boot
C4_UndersizedFailsFirst ==
    Len(config.drone) < MinDrones => (channels = {} /\ spawned = {})

\* C5: the first message on the GUI event channel is the Topology event
C5_TopologyFirst ==
    gui_event_chan # <<>> => gui_event_chan[1] = "Topology"

\* C6: for every id of the controller's directory, the consumer end of the
\* command channel whose producer is stored under that id is held by the
\* actor of that id, for drones, chat clients, media clients and servers
C6_PerNodeTargeting ==
    BuildSucceeded =>
        \A n \in Nodes :
            /\ Has(DirectoryOf(n), NodeIdOf(n))
            /\ \E slot \in Slots :
                   /\ slot[1] = SlotOf(n)[1]
                   /\ ActorAt(slot).id = NodeIdOf(n)
                   /\ ActorAt(slot).command_recv
                          = DirectoryOf(n)[NodeIdOf(n)][1]
                   /\ DirectoryOf(n)[NodeIdOf(n)][1] \notin dropped

\* C7: a configuration in which two declared nodes share an id never gets a
\* thread spawned
C7_DuplicateIdFailsBoot ==
    HasDuplicateId => spawned = {}

\* C8: no partial network is started: a panic of the boot happens with no
\* thread spawned, the first spawn happens with every actor built, and when
\* run() has ended either no unit was started or all of them were
C8_NoPartialNetwork ==
    /\ (pc = "panicked" /\ panic_msg # JoinPanic) => spawned = {}
    /\ spawned # {} =>
           /\ Len(drones) = Len(config.drone)
           /\ Len(chat_clients) + Len(media_clients) = Len(config.client)
           /\ Len(communication_servers) = Len(config.server)
    /\ pc \in {"done", "panicked"} =>
           (spawned = {} \/ spawned = ConfigHandles)

\* C8 witness: the boot has failed on a client's or server's undeclared
\* neighbor after drones had been built
C8_Witness ==
    /\ pc = "panicked"
    /\ panic_msg = "unwrap on None: neighbor sender"
    /\ Len(drones) > 0

\* C9: after a successful build the four directories of the controller
\* hold one entry per declared node, under the node's id, whose message
\* producer writes to that node's own inbound channel
C9_DirectoryOnePerNode ==
    BuildSucceeded =>
        /\ Cardinality(DOMAIN simulation_controller.drones_hashmap)
              + Cardinality(DOMAIN simulation_controller.cclient_send)
              + Cardinality(DOMAIN simulation_controller.mclient_send)
              + Cardinality(DOMAIN simulation_controller.comm_server_send)
              = Cardinality(Nodes)
        /\ \A n \in Nodes :
              /\ Has(DirectoryOf(n), NodeIdOf(n))
              /\ DirectoryOf(n)[NodeIdOf(n)][2] = OwnInbound(n)

\* C10: after a successful build the outbound producer maps hold as many
\* registrations as the adjacency lists have entries, and the map of every
\* node has its declared neighbors as keys, each with a producer of that
\* neighbor's inbound channel
C10_EdgeRegistrations ==
    BuildSucceeded =>
        /\ SumOver(Slots, [slot \in Slots |->
                      Cardinality(DOMAIN ActorAt(slot).packet_send)])
              = SumOver(Nodes, [n \in Nodes |-> Len(Neighbors(n))])
        /\ \A n \in Nodes :
              LET out == ActorAt(SlotOf(n)).packet_send
              IN  /\ DOMAIN out = Range(Neighbors(n))
                  /\ \A j \in DOMAIN out :
                        \E m \in Nodes :
                            NodeIdOf(m) = j /\ out[j] = OwnInbound(m)

\* the kind of handle the join loop at p consumes
JoinRole(p) ==
    CASE p = "join_drones"   -> "drone"
      [] p = "join_cclients" -> "cclient"
      [] p = "join_mclients" -> "mclient"
      [] p = "join_servers"  -> "server"

\* C11: run() returns only with every unit of the configuration spawned and
\* joined, only spawned handles are joined, and a join loop at position idx
\* has joined the handles before idx of its kind and no other of that kind,
\* so each join takes a handle not joined before
C11_ReturnsAfterAllJoins ==
    /\ joined \subseteq spawned
    /\ pc = "done" => (spawned = ConfigHandles /\ joined = spawned)
    /\ pc \in {"join_drones", "join_cclients", "join_mclients",
               "join_servers"} =>
           {h \in joined : h[1] = JoinRole(pc)}
               = {<<JoinRole(pc), k>> : k \in 1..(idx - 1)}
    /\ pc = "join_controller" => ControllerHandle \notin joined

\* C11 witness: run() has returned after joining a handle of every kind
C11_Witness ==
    /\ pc = "done"
    /\ {h[1] : h \in joined}
           = {"controller", "drone", "cclient", "mclient", "server"}

\* C12: with n clients the first n / 2 (rounded down), in declaration order,
\* have chat-client command channels and are the chat clients, the others
\* have media-client command channels and are the media clients, and the
\* lookup of a client's command consumer never misses
C12_ClientPartition ==
    LET n     == Len(config.client)
        first == n \div 2
        ChatCmd(id) ==
            {<<"cmd", "client", j>> : j \in {i \in 1..first :
                                                config.client[i].id = id}}
        MediaCmd(id) ==
            {<<"cmd", "client", j>> : j \in {i \in (first + 1)..n :
                                                config.client[i].id = id}}
    IN  /\ panic_msg # "unwrap on None: client command receiver"
        /\ \A id \in DOMAIN cclient_recv : cclient_recv[id] \in ChatCmd(id)
        /\ \A id \in DOMAIN mclient_recv : mclient_recv[id] \in MediaCmd(id)
        /\ pc \notin {"start", "drone_channels", "server_channels",
                      "client_channels"} =>
               /\ DOMAIN cclient_recv
                      = {config.client[i].id : i \in 1..first}
               /\ DOMAIN mclient_recv
                      = {config.client[i].id : i \in (first + 1)..n}
        /\ Len(chat_clients) <= first
        /\ Len(media_clients) <= n - first
        /\ (pc = "build_clients" /\ idx > n) =>
               (Len(chat_clients) = first /\ Len(media_clients) = n - first)
        /\ \A k \in 1..Len(chat_clients) :
               /\ chat_clients[k].id = config.client[k].id
               /\ chat_clients[k].command_recv
                      \in ChatCmd(chat_clients[k].id)
        /\ \A k \in 1..Len(media_clients) :
               /\ media_clients[k].id = config.client[first + k].id
               /\ media_clients[k].command_recv
                      \in MediaCmd(media_clients[k].id)

\* C12 witness: two clients are built, the first a chat client and the
\* second a media client
C12_Witness ==
    /\ pc = "build_clients"
    /\ idx > Len(config.client)
    /\ Len(chat_clients) = 1
    /\ Len(media_clients) = 1

\* the values of a HashMap
Values(m) == {m[k] : k \in DOMAIN m}

\* the channel ends the local variables of run() hold
InitializerEnds ==
    Values(packet_send) \cup Values(packet_recv)
        \cup Values(command_send) \cup Values(command_recv)
        \cup Values(cclient_recv) \cup Values(mclient_recv)
        \cup Values(comm_server_recv)

\* C13: once every actor and the controller are spawned and run() has not
\* ended, the local variables of run() hold no channel end
C13_InitializerHoldsNothing ==
    (pc \notin {"done", "panicked"} /\ spawned = ConfigHandles)
        => InitializerEnds = {}

====
